---- MODULE Spec2Model ----
(***************************************************************************)
(* Model of the TJPR case-lookup core: fetch (the retry controller and the *)
(* session orchestrator), resolver_captcha, extrair_url_token,             *)
(* extrair_movimentacoes (src/src/consulta.py) and the get_consulta        *)
(* endpoint (src/server.py).                                               *)
(*                                                                         *)
(* One logical request is modelled: the chain of nested fetch calls that   *)
(* share one Telemetria object.  Every action runs the code from the       *)
(* arrival of one awaited response up to the next await (or raise).        *)
(* Python strings are TLA+ strings; None is the empty sequence <<>> and a  *)
(* present optional value x is <<x>>.                                      *)
(***************************************************************************)
EXTENDS Integers, Sequences, FiniteSets, TLC

(***************************************************************************)
(* Bounds of the model.                                                    *)
(***************************************************************************)
\* the small retry bounds explored besides the defaults: 0..MaxBound each
MaxBound == 2
\* the largest response body size
MaxSize == 1
\* cap on the bytes received in one request (responses that would pass it are not drawn)
MaxBytes == 2
\* the clock readings a request may see after its start
MaxTempo == 2
\* requests in flight at once in the concurrent model
NumTarefas == 2

(***************************************************************************)
(* Program constants.                                                      *)
(***************************************************************************)
DEFAULT_TENTATIVAS_MAXIMAS_CAPTCHA == 30
DEFAULT_TENTATIVAS_MAXIMAS_RECURSIVAS == 30
HTTP_200_OK == 200
HTTP_422_UNPROCESSABLE_ENTITY == 422
HTTP_500_INTERNAL_SERVER_ERROR == 500
ENDPOINT_TENTATIVAS == 1
\* what time.time() reads when the outermost fetch is called
RELOGIO_INICIAL == 100
BASE_URL == "https://consulta.tjpr.jus.br"
MARCADOR_TJ == "_tj="
\* the strings of the portal and of the exceptions are written without their accents
MARCADOR_ANTIGAS == "Clique para visualizar as movimentacoes mais antigas"

None == <<>>
Some(x) == <<x>>

(***************************************************************************)
(* Python string helpers.                                                  *)
(***************************************************************************)
\* sub in s
Contains(s, sub) ==
    \E i \in 1..(Len(s) - Len(sub) + 1) : SubSeq(s, i, i + Len(sub) - 1) = sub

\* s.startswith(p)
StartsWith(s, p) == Len(s) >= Len(p) /\ SubSeq(s, 1, Len(p)) = p

\* str.strip() for the blank character
RECURSIVE LStrip(_)
LStrip(s) == IF Len(s) > 0 /\ SubSeq(s, 1, 1) = " " THEN LStrip(SubSeq(s, 2, Len(s))) ELSE s
RECURSIVE RStrip(_)
RStrip(s) == IF Len(s) > 0 /\ SubSeq(s, Len(s), Len(s)) = " " THEN RStrip(SubSeq(s, 1, Len(s) - 1)) ELSE s
Strip(s) == RStrip(LStrip(s))


(***************************************************************************)
(* Regular expressions of the orchestrator, evaluated as re.search does.   *)
(***************************************************************************)
Rest(s, i) == SubSeq(s, i, Len(s))
CharAt(s, i) == SubSeq(s, i, i)
QUOTES == {"\"", "'"}

\* first index >= i that is not a blank (the greedy \s*)
RECURSIVE SkipWs(_, _)
SkipWs(s, i) == IF i <= Len(s) /\ CharAt(s, i) = " " THEN SkipWs(s, i + 1) ELSE i

\* first index >= i whose character is in stop, or Len(s)+1 (the greedy [^...]+)
RECURSIVE SpanNot(_, _, _)
SpanNot(s, i, stop) ==
    IF i <= Len(s) /\ CharAt(s, i) \notin stop THEN SpanNot(s, i + 1, stop) ELSE i

\* open-quote at j, then ([^stop]+), then a closing character of stop: the group, or None
Capture(s, j, open, stop) ==
    LET k == SpanNot(s, j + 1, stop)
    IN  IF j <= Len(s) /\ CharAt(s, j) \in open /\ k > j + 1 /\ k <= Len(s)
        THEN Some(SubSeq(s, j + 1, k - 1)) ELSE None

\* AjaxJspTag\.<fn>\(\s*"([^"]+)"  anchored at i
AjaxMatchAt(s, i, fn) ==
    LET lit == "AjaxJspTag." \o fn \o "("
    IN  IF StartsWith(Rest(s, i), lit)
        THEN Capture(s, SkipWs(s, i + Len(lit)), {"\""}, {"\""}) ELSE None

\* document\.getElementById\(["']buscaProcessoForm["']\)\.action\s*=\s*["']([^"']+)["']  anchored at i
FormMatchAt(s, i) ==
    LET a == "document.getElementById("
        b == "buscaProcessoForm"
        c == ").action"
        p1 == i + Len(a)
        p2 == p1 + 1 + Len(b)
        p3 == SkipWs(s, p2 + 1 + Len(c))
    IN  IF /\ StartsWith(Rest(s, i), a)
           /\ p1 <= Len(s) /\ CharAt(s, p1) \in QUOTES
           /\ StartsWith(Rest(s, p1 + 1), b)
           /\ p2 <= Len(s) /\ CharAt(s, p2) \in QUOTES
           /\ StartsWith(Rest(s, p2 + 1), c)
           /\ p3 <= Len(s) /\ CharAt(s, p3) = "="
        THEN Capture(s, SkipWs(s, p3 + 1), QUOTES, QUOTES) ELSE None

\* pattern.search(s): the group of the leftmost match, or None
RECURSIVE SearchFrom(_, _, _)
SearchFrom(s, i, pattern) ==
    IF i > Len(s) THEN None
    ELSE LET m == IF pattern = "Form" THEN FormMatchAt(s, i) ELSE AjaxMatchAt(s, i, pattern)
         IN  IF m # None THEN m ELSE SearchFrom(s, i + 1, pattern)
re_search(s, pattern) == SearchFrom(s, 1, pattern)

(***************************************************************************)
(* Parsed documents.  A script tag is [js, string]: js says the tag has    *)
(* type="text/javascript", string is the tag's .string (None or a text).   *)
(***************************************************************************)
\* soup.find_all("script", {"type": "text/javascript"})
find_all_js(scripts) == SelectSeq(scripts, LAMBDA sc : sc.js)

\* extrair_url_token with the session-marker test dropped
RECURSIVE extrair_url_token_sem_marcador(_, _)
extrair_url_token_sem_marcador(script_tags, pattern) ==
    IF script_tags = <<>> THEN None
    ELSE LET script == Head(script_tags)
             match == IF script.string # None THEN re_search(script.string[1], pattern) ELSE None
         IN  IF match # None THEN match
             ELSE extrair_url_token_sem_marcador(Tail(script_tags), pattern)

\* extrair_url_token: the first script whose leftmost match holds "_tj=", as Some(token); else None
RECURSIVE extrair_url_token(_, _)
extrair_url_token(script_tags, pattern) ==
    IF script_tags = <<>> THEN None
    ELSE LET script == Head(script_tags)
             match == IF script.string # None THEN re_search(script.string[1], pattern) ELSE None
         IN  IF match # None /\ Contains(match[1], MARCADOR_TJ) THEN match
             ELSE extrair_url_token(Tail(script_tags), pattern)

\* the form-action scan of fetch: first script (of any type) with a match, resolved against BASE_URL
RECURSIVE form_token_url(_)
form_token_url(script_tags_full) ==
    IF script_tags_full = <<>> THEN None
    ELSE LET script == Head(script_tags_full)
             m == IF script.string # None THEN re_search(script.string[1], "Form") ELSE None
         IN  IF m # None
             THEN Some(IF StartsWith(m[1], "http") THEN m[1] ELSE BASE_URL \o m[1])
             ELSE form_token_url(Tail(script_tags_full))

(***************************************************************************)
(* Movement parser.  A table is [class, rows]; a row is the sequence of    *)
(* its td cells; a cell is the sequence of its child nodes (.contents); a  *)
(* node is [tag, text]: tag "" is a text node, any other tag an element    *)
(* whose inner text is text.                                               *)
(***************************************************************************)
\* cell.stripped_strings: the stripped texts of the cell, empty ones left out
RECURSIVE stripped_strings(_)
stripped_strings(cell) ==
    IF cell = <<>> THEN <<>>
    ELSE LET t == Strip(Head(cell).text)
         IN  (IF t = "" THEN <<>> ELSE <<t>>) \o stripped_strings(Tail(cell))

\* sep.join(strs)
RECURSIVE join(_, _)
join(sep, strs) ==
    IF strs = <<>> THEN ""
    ELSE IF Len(strs) = 1 THEN strs[1]
    ELSE strs[1] \o sep \o join(sep, Tail(strs))

\* cell.get_text(strip=True)
get_text_strip(cell) == join("", stripped_strings(cell))

\* cell.find("b"): the first b element, as Some(node), or None
find_b(cell) ==
    LET bs == SelectSeq(cell, LAMBDA n : n.tag = "b")
    IN  IF bs = <<>> THEN None ELSE Some(bs[1])

\* cell.find(text=True, recursive=False): the first child text node, or None
find_text(cell) ==
    LET ts == SelectSeq(cell, LAMBDA n : n.tag = "")
    IN  IF ts = <<>> THEN None ELSE Some(ts[1])

\* colunas[4].contents[2].strip() raises when contents[2] is an element
nome_raises(colunas) == Len(colunas[5]) > 2 /\ colunas[5][3].tag # ""

\* the Movimentacao of one row with at least 5 cells (and no raise)
movimentacao(colunas) ==
    LET c4 == colunas[5]
        nome0 == IF Len(c4) > 2 THEN Strip(c4[3].text) ELSE ""
        cargo_tag == find_b(c4)
        cargo == IF cargo_tag # None THEN Strip(cargo_tag[1].text) ELSE ""
        nome_tag == find_text(c4)
        nome == IF nome0 # "" THEN nome0
                ELSE IF nome_tag # None /\ nome_tag[1].text # "" THEN Strip(nome_tag[1].text) ELSE ""
        movimentado_por ==
            IF nome # "" /\ cargo # "" THEN nome \o " - " \o cargo
            ELSE IF nome # "" THEN nome
            ELSE IF cargo # "" THEN cargo
            ELSE get_text_strip(c4)
    IN  [seq |-> get_text_strip(colunas[2]),
         data |-> get_text_strip(colunas[3]),
         evento |-> join(" ", stripped_strings(colunas[4])),
         movimentado_por |-> movimentado_por]

\* the data rows of every resultTable, in document order (header row of each table dropped)
RECURSIVE linhas_de(_)
linhas_de(tabelas) ==
    IF tabelas = <<>> THEN <<>>
    ELSE (IF Head(tabelas).class = "resultTable" /\ Head(tabelas).rows # <<>>
          THEN Tail(Head(tabelas).rows) ELSE <<>>) \o linhas_de(Tail(tabelas))

\* extrair_movimentacoes(soup): [raised, movimentacoes]
extrair_movimentacoes(tabelas) ==
    LET linhas == SelectSeq(linhas_de(tabelas), LAMBDA l : Len(l) >= 5)
    IN  IF \E i \in 1..Len(linhas) : nome_raises(linhas[i])
        THEN [raised |-> TRUE, movimentacoes |-> <<>>]
        ELSE [raised |-> FALSE,
              movimentacoes |-> [i \in 1..Len(linhas) |-> movimentacao(linhas[i])]]

(***************************************************************************)
(* The portal's answers: the documents a response may carry.               *)
(***************************************************************************)
txt(s) == [tag |-> "", text |-> s]
elem(t, s) == [tag |-> t, text |-> s]
script(js, string) == [js |-> js, string |-> string]

S_none == script(TRUE, None)
S_sel == script(TRUE, Some("x=AjaxJspTag.Select( \"/s?_tj=a\")"))
S_selNo == script(TRUE, Some("AjaxJspTag.Select(\"/s\");AjaxJspTag.Select(\"/s?_tj=a\")"))
S_selComarca == script(TRUE, Some("AjaxJspTag.Select(\"http://h/s?_tj=b\")"))
S_auto == script(TRUE, Some("AjaxJspTag.Autocomplete(\"/a?_tj=c\")"))
S_autoNo == script(TRUE, Some("AjaxJspTag.Autocomplete(\"/a\")"))
S_autoNotJs == script(FALSE, Some("AjaxJspTag.Autocomplete(\"/a?_tj=c\")"))
S_form == script(FALSE, Some("document.getElementById('buscaProcessoForm').action = \"/f?_tj=d\";"))
S_html == script(TRUE, Some("AjaxJspTag.HtmlContent(\"/h?_tj=e\")"))
S_htmlNo == script(TRUE, Some("AjaxJspTag.HtmlContent(\"/h\")"))
S_html2 == script(TRUE, Some("AjaxJspTag.HtmlContent(\"/h?_tj=f\")"))

\* the landing page's frame src: None when there is no mainFrame or it has no src
FrameSrcs == {None, Some(""), Some("/projudi_consulta/p.do;jsessionid=J1?a=1")}

\* consultation pages: [img: src of the captcha image or None, scripts]
ConsultaPages ==
    { [img |-> Some("/captcha.png"), scripts |-> <<S_none, S_sel, S_auto, S_form>>],
      [img |-> Some("/captcha.png"), scripts |-> <<S_selNo, S_selComarca, S_form, S_auto>>],
      [img |-> Some("/captcha.png"), scripts |-> <<S_selNo, S_auto, S_form>>],
      [img |-> Some("/captcha.png"), scripts |-> <<S_sel, S_autoNo, S_autoNotJs, S_form>>],
      [img |-> Some("/captcha.png"), scripts |-> <<S_sel, S_auto>>],
      [img |-> None, scripts |-> <<S_sel, S_auto, S_form>>] }

\* form-submission responses: [scripts]; a wrong captcha answer brings no HtmlContent call
FormPages ==
    { [scripts |-> <<S_html>>], [scripts |-> <<S_none>>], [scripts |-> <<S_htmlNo>>] }

Cabecalho == <<<<txt("Seq")>>>>
Linha5 == << <<txt("")>>, <<txt(" 2 ")>>, <<txt("01/02/2023")>>,
             <<txt(" JUNTADA "), elem("b", "DE PETICAO")>>,
             <<elem("b", "Juiz"), elem("br", ""), txt(" Ana ")>> >>
Linha3 == << <<txt("")>>, <<txt("9")>>, <<txt("x")>> >>
Linha5b == << <<txt("")>>, <<txt("1")>>, <<txt("05/01/2023")>>, <<txt("DISTRIBUIDO")>>,
              <<txt(" Bia ")>> >>
LinhaTag == << <<txt("")>>, <<txt("3")>>, <<txt("07/03/2023")>>, <<txt("CONCLUSO")>>,
               <<txt("Caio"), elem("br", ""), elem("b", "Analista")>> >>
T1 == [class |-> "resultTable", rows |-> <<Cabecalho, Linha5, Linha3>>]
T2 == [class |-> "resultTable", rows |-> <<Cabecalho, Linha5b>>]
T3 == [class |-> "resultTable", rows |-> <<Cabecalho, LinhaTag>>]
TOutra == [class |-> "form", rows |-> <<Cabecalho, Linha5b>>]

\* first results fragments: [text, scripts, tabelas]
Fragments1 ==
    { [text |-> "Movimentacoes", scripts |-> <<>>, tabelas |-> <<TOutra, T1>>],
      [text |-> "x " \o MARCADOR_ANTIGAS, scripts |-> <<S_html2>>, tabelas |-> <<T1>>],
      [text |-> MARCADOR_ANTIGAS, scripts |-> <<S_htmlNo>>, tabelas |-> <<T1>>],
      [text |-> "Movimentacoes", scripts |-> <<>>, tabelas |-> <<T3>>] }

\* second (older movements) fragments
Fragments2 ==
    { [text |-> "", scripts |-> <<>>, tabelas |-> <<T2>>],
      [text |-> "", scripts |-> <<>>, tabelas |-> <<>>] }

\* what the recognizers answer
OcrTexts == {" k7p2 "}
\* HTTP statuses the portal answers with
Statuses == {HTTP_200_OK, HTTP_500_INTERNAL_SERVER_ERROR}

(***************************************************************************)
(* Case numbers handed to fetch: [type, str, truthy].                      *)
(***************************************************************************)
PyStr(s) == [type |-> "str", str |-> s, truthy |-> (s # "")]
PyInt(n) == [type |-> "int", str |-> "", truthy |-> (n # 0)]
PyNone == [type |-> "NoneType", str |-> "", truthy |-> FALSE]
NumerosEndpoint == {PyStr("0001234-56.2023.8.16.0001"), PyStr("")}
Numeros == NumerosEndpoint \cup {PyInt(123), PyInt(0), PyNone}

\* the guard of the first if of fetch, with the isinstance test dropped
entrada_invalida_sem_isinstance(numero) == ~numero.truthy

\* not numero_processo or not isinstance(numero_processo, str)
entrada_invalida(numero) == ~numero.truthy \/ numero.type # "str"

(***************************************************************************)
(* State of one logical request.                                           *)
(***************************************************************************)
VARIABLES
    numero_processo,  \* the case number handed to fetch
    entrada,          \* "endpoint": called by get_consulta; "direta": fetch called directly
    cfg,              \* [captcha, recursivas]: TENTATIVAS_MAXIMAS_CAPTCHA / _RECURSIVAS
    telemetria,       \* the shared Telemetria object
    telemetria0,      \* its value when the outermost fetch was called
    pc,               \* where the running fetch call stands
    pilha,            \* suspended fetch calls (innermost first): their live locals
    results,          \* local `results` of the running call
    loc,              \* other locals of the running call
    exc,              \* Some(message) of the exception caught at `except Exception as e`
    retorno,          \* Some(value returned by the fetch call that returned last)
    chamadas,         \* network calls issued by the running call, in order
    sucesso,          \* Some(the success dict built by an attempt of this request)
    respostas,        \* statuses of the responses the running call received, in order
    recebidos,        \* sum of the body sizes of every response received in the request
    recursoes,        \* number of recursive fetch calls made in the request
    execucoes,        \* number of orchestrator runs started in the request
    relogio,          \* what time.time() reads now
    inicio_tempo,     \* local `inicio_tempo` of the running call
    tarefas,          \* concurrent model: the requests in flight, one cooperative task each
    arquivo           \* concurrent model: content of captcha_temporario.png

vars == <<numero_processo, entrada, cfg, telemetria, telemetria0, pc, pilha, results, loc,
          exc, retorno, chamadas, sucesso, respostas, recebidos, recursoes, execucoes,
          relogio, inicio_tempo, tarefas, arquivo>>

(***************************************************************************)
(* Values returned by fetch.  A dict is [kind = "dict", keys, ...] with    *)
(* the values of its present keys; the value of key telemetria is the      *)
(* shared Telemetria object itself.                                        *)
(***************************************************************************)
DictVazio ==
    [kind |-> "dict", status_code |-> 0, keys |-> {}, code |-> 0, message |-> "",
     results |-> <<>>]

JSONResponse(status_code, code, message) ==
    [kind |-> "JSONResponse", status_code |-> status_code, keys |-> {"code", "message"},
     code |-> code, message |-> message, results |-> <<>>]

DictSucesso(movimentacoes) ==
    [kind |-> "dict", status_code |-> 0,
     keys |-> {"code", "message", "datetime", "results", "telemetria"},
     code |-> 200, message |-> "SUCESSO", results |-> movimentacoes]

DictErro ==
    [kind |-> "dict", status_code |-> 0, keys |-> {"code", "message", "telemetria"},
     code |-> 4, message |-> "ERRO_SERVIDOR_INTERNO", results |-> <<>>]

\* the status FastAPI answers with when get_consulta returns r
http_status(r) == IF r.kind = "JSONResponse" THEN r.status_code ELSE HTTP_200_OK

LocVazio ==
    [soup_consulta |-> None, soup_final |-> None, soup_1 |-> None, soup_2 |-> None,
     resultado_ocr |-> None,
     captcha |-> [status |-> 0, client |-> "", api |-> "", ddddocr |-> ""]]

(***************************************************************************)
(* Telemetry updates.                                                      *)
(***************************************************************************)
\* telemetria.bytes_enviados = n
atribui_bytes(t, n) == [t EXCEPT !.bytes_enviados = n]

\* telemetria.bytes_enviados += n
soma_bytes(t, n) == [t EXCEPT !.bytes_enviados = @ + n]

\* the recursive-bound test with > for >=
limite_recursivo_atingido_gt(t, c) == t.tentativas > c.recursivas

\* telemetria.tentativas >= TENTATIVAS_MAXIMAS_RECURSIVAS
limite_recursivo_atingido(t, c) == t.tentativas >= c.recursivas

\* the test of the except clause made on the attempts the retry would have
pode_tentar_novamente_adiantado(t, c) == t.tentativas + 1 < c.captcha

\* telemetria.tentativas < TENTATIVAS_MAXIMAS_CAPTCHA
pode_tentar_novamente(t, c) == t.tentativas < c.captcha

\* the retry without its increment of tentativas
incrementa_tentativas_esquecido(t) == t

\* telemetria.tentativas += 1
incrementa_tentativas(t) == [t EXCEPT !.tentativas = @ + 1]

\* telemetria.tempo_total = round(time.time() - inicio_tempo, 2)
atualiza_tempo(t, agora, inicio) == [t EXCEPT !.tempo_total = agora - inicio]

(***************************************************************************)
(* Initial states: the call of the outermost fetch.                        *)
(***************************************************************************)
Configs ==
    {[captcha |-> c, recursivas |-> r] : c \in 0..MaxBound, r \in 0..MaxBound}
    \cup {[captcha |-> DEFAULT_TENTATIVAS_MAXIMAS_CAPTCHA,
           recursivas |-> DEFAULT_TENTATIVAS_MAXIMAS_RECURSIVAS]}

\* attempts a direct caller starts with: those of a fresh Telemetria, and those at or just
\* above the bound
TentativasIniciais(c) ==
    {t \in 0..(c.recursivas + 1) : t = 0 \/ t >= c.recursivas}

Init ==
    /\ cfg \in Configs
    /\ entrada \in {"endpoint", "direta"}
    /\ numero_processo \in (IF entrada = "endpoint" THEN NumerosEndpoint ELSE Numeros)
    /\ \E t \in (IF entrada = "endpoint" THEN {ENDPOINT_TENTATIVAS} ELSE TentativasIniciais(cfg)) :
           telemetria = [tentativas |-> t, captchas_resolvidos |-> 0, bytes_enviados |-> 0,
                         tempo_total |-> IF entrada = "endpoint" THEN RELOGIO_INICIAL ELSE 0]
    /\ telemetria0 = telemetria
    /\ pc = "call"
    /\ pilha = <<>>
    /\ results = DictVazio
    /\ loc = LocVazio
    /\ exc = None
    /\ retorno = None
    /\ chamadas = <<>>
    /\ sucesso = None
    /\ respostas = <<>>
    /\ recebidos = 0
    /\ recursoes = 0
    /\ execucoes = 0
    /\ relogio = RELOGIO_INICIAL
    /\ inicio_tempo = relogio
    /\ tarefas = <<>>
    /\ arquivo = None

(***************************************************************************)
(* Control-flow helpers.                                                   *)
(***************************************************************************)
Fixos == <<numero_processo, entrada, cfg, telemetria0, relogio, tarefas, arquivo>>

\* the running fetch call returns v; a suspended caller resumes at its finally clause
Retorna(v) ==
    /\ retorno' = Some(v)
    /\ IF pilha = <<>>
       THEN /\ pc' = "done"
            /\ UNCHANGED <<pilha, results, loc, exc, chamadas, respostas, inicio_tempo>>
       ELSE /\ pc' = "finally"
            /\ results' = Head(pilha).results
            /\ inicio_tempo' = Head(pilha).inicio_tempo
            /\ pilha' = Tail(pilha)
            /\ loc' = LocVazio
            /\ exc' = None
            /\ chamadas' = <<>>
            /\ respostas' = <<>>
    /\ UNCHANGED <<sucesso, recebidos, recursoes, execucoes>>

\* raise Exception(msg) inside the try block: control goes to the except clause
Falha(msg) ==
    /\ pc' = "except"
    /\ exc' = Some(msg)
    /\ UNCHANGED <<pilha, results, retorno, chamadas, sucesso, recursoes, execucoes, inicio_tempo>>

\* the next network call is issued
Segue(prox) ==
    /\ pc' = prox
    /\ chamadas' = Append(chamadas, prox)
    /\ UNCHANGED <<pilha, results, retorno, exc, sucesso, recursoes, execucoes, inicio_tempo>>

\* extrair_movimentacoes on the combined markup, then the success dict
Analisa(tabelas) ==
    LET r == extrair_movimentacoes(tabelas)
    IN  IF r.raised
        THEN Falha("TypeError: 'NoneType' object is not callable")
        ELSE /\ pc' = "finally"
             /\ results' = DictSucesso(r.movimentacoes)
             /\ sucesso' = Some(DictSucesso(r.movimentacoes))
             /\ UNCHANGED <<pilha, retorno, exc, chamadas, recursoes, execucoes, inicio_tempo>>

\* body sizes a response may have, r bytes having been received so far
Tamanhos(r) == {n \in 0..MaxSize : r + n <= MaxBytes}

\* a response with status st and a body of n bytes arrives
Recebe(st, n) ==
    /\ respostas' = Append(respostas, st)
    /\ recebidos' = recebidos + n

\* httpx raises (timeout, connection error): no response, nothing counted
ErroDeRede ==
    /\ Falha("httpx.HTTPError")
    /\ UNCHANGED <<telemetria, loc, respostas, recebidos>>

(***************************************************************************)
(* fetch: entry checks.                                                    *)
(***************************************************************************)
FetchEntradaInvalida ==
    /\ pc = "call"
    /\ entrada_invalida(numero_processo)
    /\ telemetria' = atualiza_tempo(telemetria, relogio, inicio_tempo)
    /\ Retorna(JSONResponse(HTTP_422_UNPROCESSABLE_ENTITY, 2, "ERRO_ENTIDADE_NAO_PROCESSAVEL"))
    /\ UNCHANGED Fixos

\* the early return counting itself as an attempt
FetchLimiteRecursivo_conta_tentativa ==
    /\ pc = "call"
    /\ ~entrada_invalida(numero_processo)
    /\ limite_recursivo_atingido(telemetria, cfg)
    /\ telemetria' = incrementa_tentativas(telemetria)
    /\ Retorna(JSONResponse(HTTP_500_INTERNAL_SERVER_ERROR, 3, "ERRO_SERVIDOR_INTERNO"))
    /\ UNCHANGED Fixos

FetchLimiteRecursivo ==
    /\ pc = "call"
    /\ ~entrada_invalida(numero_processo)
    /\ limite_recursivo_atingido(telemetria, cfg)
    /\ Retorna(JSONResponse(HTTP_500_INTERNAL_SERVER_ERROR, 3, "ERRO_SERVIDOR_INTERNO"))
    /\ UNCHANGED <<telemetria, Fixos>>

FetchInicia ==
    /\ pc = "call"
    /\ ~entrada_invalida(numero_processo)
    /\ ~limite_recursivo_atingido(telemetria, cfg)
    /\ pc' = "landing"
    /\ results' = DictVazio
    /\ chamadas' = <<"landing">>
    /\ execucoes' = execucoes + 1
    /\ UNCHANGED <<telemetria, pilha, loc, exc, retorno, sucesso, respostas, recebidos,
                   recursoes, inicio_tempo, Fixos>>

(***************************************************************************)
(* fetch: the orchestrator steps.                                          *)
(***************************************************************************)
\* 1st GET: landing page and its mainFrame
Landing ==
    /\ pc = "landing"
    /\ \/ ErroDeRede
       \/ \E st \in Statuses, n \in Tamanhos(recebidos), src \in FrameSrcs :
            /\ Recebe(st, n)
            /\ telemetria' = soma_bytes(telemetria, n)
            /\ loc' = loc
            /\ IF st # HTTP_200_OK
               THEN Falha("Falha ao acessar a pagina inicial")
               ELSE IF src = None \/ src[1] = ""
               THEN Falha("Frame com id='mainFrame' nao encontrado ou sem atributo 'src'")
               ELSE Segue("cabecalho")
    /\ UNCHANGED Fixos

\* 2nd GET: cabecalho.jsp
CabecalhoJsp ==
    /\ pc = "cabecalho"
    /\ \/ ErroDeRede
       \/ \E st \in Statuses, n \in Tamanhos(recebidos) :
            /\ Recebe(st, n)
            /\ telemetria' = soma_bytes(telemetria, n)
            /\ loc' = loc
            /\ IF st # HTTP_200_OK
               THEN Falha("Falha ao acessar cabecalho.jsp")
               ELSE Segue("consulta")
    /\ UNCHANGED Fixos

\* 3rd GET: consultation page; captcha image and the Select endpoint
PaginaConsulta ==
    /\ pc = "consulta"
    /\ \/ ErroDeRede
       \/ \E st \in Statuses, n \in Tamanhos(recebidos), pagina \in ConsultaPages :
            /\ Recebe(st, n)
            /\ telemetria' = soma_bytes(telemetria, n)
            /\ IF st # HTTP_200_OK
               THEN /\ loc' = loc
                    /\ Falha("Falha ao acessar a pagina de consulta")
               ELSE /\ loc' = [loc EXCEPT !.soup_consulta = Some(pagina)]
                    /\ IF pagina.img = None
                       THEN Falha("Imagem do CAPTCHA nao encontrada ou sem atributo 'src'!")
                       ELSE IF extrair_url_token(find_all_js(pagina.scripts), "Select") = None
                       THEN Falha("URL com '_tj=' nao encontrada no HTML")
                       ELSE Segue("select")
    /\ UNCHANGED Fixos

\* GET of the Select endpoint; then the Autocomplete endpoint is extracted
ComarcaSelect ==
    /\ pc = "select"
    /\ \/ ErroDeRede
       \/ \E st \in Statuses, n \in Tamanhos(recebidos) :
            /\ Recebe(st, n)
            /\ telemetria' = soma_bytes(telemetria, n)
            /\ loc' = loc
            /\ IF st # HTTP_200_OK
               THEN Falha("Falha ao acessar a URL AJAX")
               ELSE IF extrair_url_token(find_all_js(loc.soup_consulta[1].scripts),
                                         "Autocomplete") = None
               THEN Falha("URL do Autocomplete com '_tj=' nao encontrada no HTML")
               ELSE Segue("autocomplete")
    /\ UNCHANGED Fixos

\* POST of the case number to the Autocomplete endpoint
Autocomplete ==
    /\ pc = "autocomplete"
    /\ \/ ErroDeRede
       \/ \E st \in Statuses, n \in Tamanhos(recebidos) :
            /\ Recebe(st, n)
            /\ telemetria' = soma_bytes(telemetria, n)
            /\ loc' = loc
            /\ IF st # HTTP_200_OK
               THEN Falha("Falha ao acessar a URL AJAX")
               ELSE Segue("captcha")
    /\ UNCHANGED Fixos

(***************************************************************************)
(* resolver_captcha.  st: status of the image download; client, api, dd:   *)
(* "ok" or "erro" for the construction of the remote Client, the remote    *)
(* predict call and the local ddddocr engine; texto: what a recognizer     *)
(* answers.  Gives [raised, msg, resultado, resolvidos, captcha]:          *)
(* resolvidos is the increment of captchas_resolvidos, captcha records     *)
(* which parts ran ("" = not run).                                         *)
(***************************************************************************)
\* the resolver without its test of the download's status
resolver_captcha_sem_status(st, client, api, dd, texto) ==
    IF client = "erro"
    THEN [raised |-> TRUE, msg |-> "Client", resultado |-> None, resolvidos |-> 0,
          captcha |-> [status |-> st, client |-> "erro", api |-> "", ddddocr |-> ""]]
    ELSE IF api = "ok"
    THEN [raised |-> FALSE, msg |-> "", resultado |-> Some(Strip(texto)), resolvidos |-> 1,
          captcha |-> [status |-> st, client |-> "ok", api |-> "ok", ddddocr |-> ""]]
    ELSE IF dd = "ok"
    THEN [raised |-> FALSE, msg |-> "", resultado |-> Some(texto), resolvidos |-> 1,
          captcha |-> [status |-> st, client |-> "ok", api |-> "erro", ddddocr |-> "ok"]]
    ELSE [raised |-> TRUE, msg |-> "ddddocr", resultado |-> None, resolvidos |-> 1,
          captcha |-> [status |-> st, client |-> "ok", api |-> "erro", ddddocr |-> "erro"]]

\* resolver_captcha, as described above
resolver_captcha(st, client, api, dd, texto) ==
    IF st # HTTP_200_OK
    THEN [raised |-> TRUE, msg |-> "Falha ao baixar o CAPTCHA", resultado |-> None,
          resolvidos |-> 0,
          captcha |-> [status |-> st, client |-> "", api |-> "", ddddocr |-> ""]]
    ELSE IF client = "erro"
    THEN [raised |-> TRUE, msg |-> "Client", resultado |-> None, resolvidos |-> 0,
          captcha |-> [status |-> st, client |-> "erro", api |-> "", ddddocr |-> ""]]
    ELSE IF api = "ok"
    THEN [raised |-> FALSE, msg |-> "", resultado |-> Some(Strip(texto)), resolvidos |-> 1,
          captcha |-> [status |-> st, client |-> "ok", api |-> "ok", ddddocr |-> ""]]
    ELSE IF dd = "ok"
    THEN [raised |-> FALSE, msg |-> "", resultado |-> Some(texto), resolvidos |-> 1,
          captcha |-> [status |-> st, client |-> "ok", api |-> "erro", ddddocr |-> "ok"]]
    ELSE [raised |-> TRUE, msg |-> "ddddocr", resultado |-> None, resolvidos |-> 1,
          captcha |-> [status |-> st, client |-> "ok", api |-> "erro", ddddocr |-> "erro"]]

\* GET of the captcha image, its resolution, then the discovery of the form action
Captcha ==
    /\ pc = "captcha"
    /\ \/ ErroDeRede
       \/ \E st \in Statuses, n \in Tamanhos(recebidos), client \in {"ok", "erro"},
             api \in {"ok", "erro"}, dd \in {"ok", "erro"}, texto \in OcrTexts :
            LET r == resolver_captcha(st, client, api, dd, texto)
            IN  /\ Recebe(st, n)
                /\ telemetria' = [telemetria EXCEPT !.captchas_resolvidos = @ + r.resolvidos]
                /\ loc' = [loc EXCEPT !.captcha = r.captcha, !.resultado_ocr = r.resultado]
                /\ IF r.raised
                   THEN Falha(r.msg)
                   ELSE IF form_token_url(loc.soup_consulta[1].scripts) = None
                   THEN Falha("URL de submissao do formulario nao encontrada.")
                   ELSE Segue("form")
    /\ UNCHANGED Fixos

\* POST of the search form; the HtmlContent endpoint of the first results page
FormPost ==
    /\ pc = "form"
    /\ \/ ErroDeRede
       \/ \E st \in Statuses, n \in Tamanhos(recebidos), pagina \in FormPages :
            /\ Recebe(st, n)
            /\ telemetria' = soma_bytes(telemetria, n)
            /\ IF st # HTTP_200_OK
               THEN /\ loc' = loc
                    /\ Falha("Falha ao submeter o formulario")
               ELSE /\ loc' = [loc EXCEPT !.soup_final = Some(pagina)]
                    /\ IF extrair_url_token(find_all_js(pagina.scripts), "HtmlContent") = None
                       THEN Falha("Token/URL da chamada AjaxJspTag.HtmlContent nao encontrado.")
                       ELSE Segue("ultimo")
    /\ UNCHANGED Fixos

\* POST for the first results fragment; the older-movements check
UltimoPost ==
    /\ pc = "ultimo"
    /\ \/ ErroDeRede
       \/ \E st \in Statuses, n \in Tamanhos(recebidos), frag \in Fragments1 :
            /\ Recebe(st, n)
            /\ telemetria' = soma_bytes(telemetria, n)
            /\ IF st # HTTP_200_OK
               THEN /\ loc' = loc
                    /\ Falha("Falha ao acessar a URL final")
               ELSE /\ loc' = [loc EXCEPT !.soup_1 = Some(frag)]
                    /\ IF /\ Contains(frag.text, MARCADOR_ANTIGAS)
                          /\ extrair_url_token(find_all_js(frag.scripts), "HtmlContent") # None
                       THEN Segue("resp_final")
                       ELSE Analisa(frag.tabelas)
    /\ UNCHANGED Fixos

\* the second fragment put ahead of the first
html_combinado_invertido(tabelas_1, tabelas_2) == tabelas_2 \o tabelas_1

\* html_combinado = str(soup_1) + str(soup_2), parsed again: the tables of both, in order
html_combinado(tabelas_1, tabelas_2) == tabelas_1 \o tabelas_2

\* POST for the older-movements fragment; both fragments are combined and parsed
RespFinal ==
    /\ pc = "resp_final"
    /\ \/ ErroDeRede
       \/ \E st \in Statuses, n \in Tamanhos(recebidos), frag \in Fragments2 :
            /\ Recebe(st, n)
            /\ telemetria' = soma_bytes(telemetria, n)
            /\ IF st # HTTP_200_OK
               THEN /\ loc' = loc
                    /\ Falha("Falha ao acessar a URL final")
               ELSE /\ loc' = [loc EXCEPT !.soup_2 = Some(frag)]
                    /\ Analisa(html_combinado(loc.soup_1[1].tabelas, frag.tabelas))
    /\ UNCHANGED Fixos

(***************************************************************************)
(* fetch: except and finally clauses.                                      *)
(***************************************************************************)
\* except, retry branch: tentativas += 1; return await fetch(...)
ExceptTentaNovamente ==
    /\ pc = "except"
    /\ pode_tentar_novamente(telemetria, cfg)
    /\ telemetria' = incrementa_tentativas(telemetria)
    /\ pilha' = <<[results |-> results, inicio_tempo |-> inicio_tempo]>> \o pilha
    /\ pc' = "call"
    /\ results' = DictVazio
    /\ inicio_tempo' = relogio
    /\ loc' = LocVazio
    /\ exc' = None
    /\ chamadas' = <<>>
    /\ respostas' = <<>>
    /\ recursoes' = recursoes + 1
    /\ UNCHANGED <<retorno, sucesso, recebidos, execucoes, Fixos>>

\* except, else branch: the code-4 failure dict
ExceptDesiste ==
    /\ pc = "except"
    /\ ~pode_tentar_novamente(telemetria, cfg)
    /\ results' = DictErro
    /\ pc' = "finally"
    /\ UNCHANGED <<telemetria, pilha, loc, exc, retorno, chamadas, sucesso, respostas,
                   recebidos, recursoes, execucoes, inicio_tempo, Fixos>>

\* what the finally clause returns: results, with the telemetria key ensured
\* (ret, the value the except clause was about to return, is discarded)
valor_do_finally(res, ret) ==
    IF res.kind = "dict" /\ "telemetria" \notin res.keys
    THEN [res EXCEPT !.keys = @ \cup {"telemetria"}]
    ELSE res

\* finally: ... return results
Finally ==
    /\ pc = "finally"
    /\ telemetria' = atualiza_tempo(telemetria, relogio, inicio_tempo)
    /\ Retorna(valor_do_finally(results, retorno))
    /\ UNCHANGED Fixos

Next ==
    \/ FetchEntradaInvalida
    \/ FetchLimiteRecursivo
    \/ FetchInicia
    \/ Landing
    \/ CabecalhoJsp
    \/ PaginaConsulta
    \/ ComarcaSelect
    \/ Autocomplete
    \/ Captcha
    \/ FormPost
    \/ UltimoPost
    \/ RespFinal
    \/ ExceptTentaNovamente
    \/ ExceptDesiste
    \/ Finally

Spec == Init /\ [][Next]_vars

(***************************************************************************)
(* The same program with time passing: the clock may advance between any   *)
(* two steps of a request.  The bounds are the small ones.                 *)
(***************************************************************************)
Tick ==
    /\ pc # "done"
    /\ relogio < RELOGIO_INICIAL + MaxTempo
    /\ relogio' = relogio + 1
    /\ UNCHANGED <<numero_processo, entrada, cfg, telemetria, telemetria0, pc, pilha, results,
                   loc, exc, retorno, chamadas, sucesso, respostas, recebidos, recursoes,
                   execucoes, inicio_tempo, tarefas, arquivo>>

InitTempo ==
    /\ Init
    /\ cfg.captcha <= MaxBound
    /\ cfg.recursivas <= MaxBound

NextTempo == Next \/ Tick

SpecTempo == InitTempo /\ [][NextTempo]_vars

(***************************************************************************)
(* NumTarefas requests in flight in one event loop.  A task runs from one  *)
(* await to the next without interruption; the awaits of fetch are its     *)
(* network calls.  A task is [pc, tentativas, imagem, lido]: pc is the     *)
(* call it awaits ("antes": one of the calls before the captcha download,  *)
(* "captcha": the download, "depois": one of the calls after the           *)
(* resolution), or "except", or "fim"; imagem is its bytes_imagem and lido *)
(* what the remote recognizer read from the scratch file for it.  An image *)
(* is [dono, tentativa]: the one served to task dono in that attempt; dono *)
(* 0 is a request that ended before these started.  The requests are all   *)
(* made through the endpoint, or all by direct calls of fetch with a fresh *)
(* Telemetria, and each has passed the tests at the start of fetch and     *)
(* awaits its first call.                                                  *)
(***************************************************************************)
Tarefas == 1..NumTarefas

\* a call of fetch with attempts t that has come to its first await
TarefaNova(t) == [pc |-> "antes", tentativas |-> t, imagem |-> None, lido |-> None]

\* the attempts a request starts with
TentativasDaEntrada == IF entrada = "endpoint" THEN ENDPOINT_TENTATIVAS ELSE 0

\* the scratch file at the start: absent, or left by an earlier request (it is never
\* deleted)
ArquivosIniciais == {None, Some([dono |-> 0, tentativa |-> 0])}

\* the single-request variables, unused by the concurrent model
Parados ==
    <<numero_processo, entrada, cfg, telemetria, telemetria0, pc, pilha, results, loc, exc,
      retorno, chamadas, sucesso, respostas, recebidos, recursoes, execucoes, relogio,
      inicio_tempo>>

InitConc ==
    /\ numero_processo = PyStr("0001234-56.2023.8.16.0001")
    /\ entrada \in {"endpoint", "direta"}
    /\ cfg \in {c \in Configs : /\ c.captcha <= MaxBound
                                /\ c.recursivas <= MaxBound
                                /\ c.recursivas > TentativasDaEntrada}
    /\ telemetria = [tentativas |-> TentativasDaEntrada, captchas_resolvidos |-> 0,
                     bytes_enviados |-> 0,
                     tempo_total |-> IF entrada = "endpoint" THEN RELOGIO_INICIAL ELSE 0]
    /\ telemetria0 = telemetria
    /\ pc = "call"
    /\ pilha = <<>>
    /\ results = DictVazio
    /\ loc = LocVazio
    /\ exc = None
    /\ retorno = None
    /\ chamadas = <<>>
    /\ sucesso = None
    /\ respostas = <<>>
    /\ recebidos = 0
    /\ recursoes = 0
    /\ execucoes = 0
    /\ relogio = RELOGIO_INICIAL
    /\ inicio_tempo = relogio
    /\ tarefas = [r \in Tarefas |-> TarefaNova(TentativasDaEntrada)]
    /\ arquivo \in ArquivosIniciais

\* the recognizer's read placed ahead of the write
arquivo_lido_antes(antes, depois) == antes

\* what predict(handle_file("captcha_temporario.png")) reads, the file holding `antes`
\* when the task was resumed and `depois` once the task has written it: the read
\* comes after the write, with no await in between
arquivo_lido(antes, depois) == depois

\* a call before the captcha download answers: the task fails or goes on to the download
TarefaAvanca(r) ==
    /\ tarefas[r].pc = "antes"
    /\ \E prox \in {"captcha", "except"} :
           tarefas' = [tarefas EXCEPT ![r].pc = prox]
    /\ UNCHANGED <<arquivo, Parados>>

\* the captcha download answers: the task runs the rest of resolver_captcha, then the
\* form discovery, up to the await of the form POST
TarefaResolve(r) ==
    /\ tarefas[r].pc = "captcha"
    /\ \E st \in Statuses, client \in {"ok", "erro"}, api \in {"ok", "erro"},
          dd \in {"ok", "erro"}, texto \in OcrTexts :
         LET res == resolver_captcha(st, client, api, dd, texto)
             img == [dono |-> r, tentativa |-> tarefas[r].tentativas]
             escrito == IF st = HTTP_200_OK THEN Some(img) ELSE arquivo
         IN  /\ arquivo' = escrito
             /\ tarefas' = [tarefas EXCEPT
                    ![r].imagem = IF st = HTTP_200_OK THEN Some(img) ELSE None,
                    ![r].lido = IF res.captcha.api # ""
                                THEN arquivo_lido(arquivo, escrito) ELSE None,
                    ![r].pc = IF res.raised THEN "except" ELSE "depois"]
    /\ UNCHANGED Parados

\* a call after the resolution answers: the task fails or returns
TarefaConclui(r) ==
    /\ tarefas[r].pc = "depois"
    /\ \E prox \in {"fim", "except"} :
           tarefas' = [tarefas EXCEPT ![r].pc = prox]
    /\ UNCHANGED <<arquivo, Parados>>

\* the except clause, up to the next await or to the return of the request: with the
\* captcha bound reached the task ends; otherwise tentativas += 1 and the nested call
\* either returns at once (recursive bound reached), which ends the task, or starts a
\* new attempt with new locals
TarefaRepete(r) ==
    /\ tarefas[r].pc = "except"
    /\ tarefas' = [tarefas EXCEPT ![r] =
           IF ~pode_tentar_novamente(tarefas[r], cfg)
           THEN [@ EXCEPT !.pc = "fim"]
           ELSE IF limite_recursivo_atingido(incrementa_tentativas(tarefas[r]), cfg)
           THEN [incrementa_tentativas(tarefas[r]) EXCEPT !.pc = "fim"]
           ELSE TarefaNova(tarefas[r].tentativas + 1)]
    /\ UNCHANGED <<arquivo, Parados>>

Tarefa(r) == TarefaAvanca(r) \/ TarefaResolve(r) \/ TarefaConclui(r) \/ TarefaRepete(r)

NextConc == \E r \in Tarefas : Tarefa(r)

\* the event loop resumes every task whose awaited call has answered
SpecConc == InitConc /\ [][NextConc]_vars /\ \A r \in Tarefas : WF_vars(Tarefa(r))

(***************************************************************************)
(* Properties.                                                             *)
(***************************************************************************)
Terminou == pc = "done"
Retornado == retorno[1]
Repetiu == telemetria.tentativas > telemetria0.tentativas
EntradaValida == numero_processo.type = "str" /\ numero_processo.str # ""
ConfigPadrao ==
    cfg = [captcha |-> DEFAULT_TENTATIVAS_MAXIMAS_CAPTCHA,
           recursivas |-> DEFAULT_TENTATIVAS_MAXIMAS_RECURSIVAS]
Vocabulario ==
    { <<200, "SUCESSO">>, <<2, "ERRO_ENTIDADE_NAO_PROCESSAVEL">>,
      <<3, "ERRO_SERVIDOR_INTERNO">>, <<4, "ERRO_SERVIDOR_INTERNO">> }

\* C1: when an attempt failed, fetch retried and a later attempt succeeded, the
\* outermost fetch call returns the success payload built by that attempt.
C1_RetornaSucessoAposRepeticao ==
    (Terminou /\ EntradaValida /\ Repetiu /\ sucesso # None) => retorno = sucesso

\* C2: every value the outermost fetch returns holds a code and a message, and the
\* pair belongs to the fixed vocabulary.
C2_CodigoEMensagemSempre ==
    Terminou =>
        /\ {"code", "message"} \subseteq Retornado.keys
        /\ <<Retornado.code, Retornado.message>> \in Vocabulario

\* C3: with the default bounds and attempts starting at 0, a request whose every
\* attempt fails returns an internal-error code with ERRO_SERVIDOR_INTERNO and
\* attempts = 30.
C3_FalhaAposTrintaTentativas ==
    (Terminou /\ ConfigPadrao /\ EntradaValida /\ telemetria0.tentativas = 0 /\ sucesso = None)
        => /\ {"code", "message"} \subseteq Retornado.keys
           /\ Retornado.code \in {3, 4}
           /\ Retornado.message = "ERRO_SERVIDOR_INTERNO"
           /\ telemetria.tentativas = 30

\* C4: every value the outermost fetch returns carries the telemetry record.
C4_TelemetriaSempre ==
    Terminou => "telemetria" \in Retornado.keys

\* C5: for every configuration of the two bounds, starting from attempts not above
\* the recursive bound, attempts never exceeds the recursive bound.
C5_TentativasDentroDoLimite ==
    telemetria0.tentativas <= cfg.recursivas => telemetria.tentativas <= cfg.recursivas

\* the retries went all the way to a recursive bound smaller than the captcha bound
C5_Witness ==
    /\ Terminou /\ Repetiu
    /\ cfg.captcha > cfg.recursivas
    /\ telemetria.tentativas = cfg.recursivas

\* C6: an empty or non-string case number gets the 422 / code 2 outcome at once:
\* the counters stay as they were, no network call is issued, nothing is retried.
C6_EntradaInvalidaImediata ==
    ~EntradaValida =>
        /\ pc \in {"call", "done"}
        /\ telemetria.tentativas = telemetria0.tentativas
        /\ telemetria.captchas_resolvidos = telemetria0.captchas_resolvidos
        /\ telemetria.bytes_enviados = telemetria0.bytes_enviados
        /\ chamadas = <<>>
        /\ pilha = <<>>
        /\ Terminou =>
             /\ retorno = Some(JSONResponse(422, 2, "ERRO_ENTIDADE_NAO_PROCESSAVEL"))
             /\ http_status(Retornado) = 422

\* a non-string, truthy case number was refused
C6_Witness ==
    /\ Terminou
    /\ numero_processo.type # "str" /\ numero_processo.truthy
    /\ Retornado.code = 2

\* C7: the HTTP status mirrors the outcome: 422 for malformed input, 200 only for
\* success, 500 for every other outcome.
C7_StatusEspelhaResultado ==
    Terminou =>
        http_status(Retornado) =
            IF ~EntradaValida THEN 422
            ELSE IF "code" \in Retornado.keys /\ Retornado.code = 200 THEN 200
            ELSE 500

\* C8: bytes_enviados never decreases, over every step and across retries.
C8_BytesNaoDecresce ==
    [][telemetria'.bytes_enviados >= telemetria.bytes_enviados]_vars

\* a retried attempt is receiving responses on top of bytes counted before
C8_Witness ==
    /\ Repetiu
    /\ pc = "consulta"
    /\ telemetria.bytes_enviados > 0

\* no script of the collection has a leftmost match of the pattern holding "_tj="
SemMarcador(script_tags, pattern) ==
    \A i \in 1..Len(script_tags) :
        script_tags[i].string # None =>
            LET m == re_search(script_tags[i].string[1], pattern)
            IN  m = None \/ ~Contains(m[1], MARCADOR_TJ)

\* the running attempt was aborted by an exception handed to the except clause
Abortou ==
    /\ exc # None
    /\ \/ pc = "except"
       \/ pc \in {"finally", "done"} /\ results = DictErro

\* the older-movements marker is in the first fragment and its scripts have no token
QuartaNaoEncontrada ==
    /\ loc.soup_1 # None
    /\ Contains(loc.soup_1[1].text, MARCADOR_ANTIGAS)
    /\ SemMarcador(find_all_js(loc.soup_1[1].scripts), "HtmlContent")

\* the first three extractions: not found aborts the attempt, stated contrapositively
\* (an attempt that is not aborted has found the token); the Autocomplete extraction
\* runs once the Select call has answered
TresPrimeirasAbortam ==
    /\ (loc.soup_consulta # None /\ ~Abortou)
       => ~SemMarcador(find_all_js(loc.soup_consulta[1].scripts), "Select")
    /\ (loc.soup_consulta # None /\ ~Abortou /\ pc # "select")
       => ~SemMarcador(find_all_js(loc.soup_consulta[1].scripts), "Autocomplete")
    /\ (loc.soup_final # None /\ ~Abortou)
       => ~SemMarcador(find_all_js(loc.soup_final[1].scripts), "HtmlContent")

\* C9 (as stated): for each of the four extractions, not found aborts the attempt.
C9_NaoEncontradoAbortaSempre ==
    /\ TresPrimeirasAbortam
    /\ QuartaNaoEncontrada => Abortou

\* C9 (amended): for the Select, Autocomplete and first HtmlContent extractions, not
\* found aborts the attempt; for the second HtmlContent extraction, not found raises
\* nothing: no second fragment is requested and the first fragment alone is parsed.
C9_NaoEncontradoTresAbortam ==
    /\ TresPrimeirasAbortam
    /\ QuartaNaoEncontrada =>
         /\ loc.soup_2 = None
         /\ LET r == extrair_movimentacoes(loc.soup_1[1].tabelas)
            IN  IF r.raised
                THEN Abortou
                ELSE /\ pc \in {"finally", "done"}
                     /\ exc = None
                     /\ results = DictSucesso(r.movimentacoes)

\* the second extraction found nothing and the request ended in success
C9_Witness ==
    /\ Terminou
    /\ QuartaNaoEncontrada
    /\ Retornado.code = 200

\* C10: once the image came with status 200, any failure of the remote recognition
\* (reaching the service included) runs the local engine; the resolver fails only
\* when the local engine fails too, and gives a text otherwise.
C10_FalhaRemotaUsaFallback ==
    loc.captcha.status = HTTP_200_OK =>
        /\ (loc.captcha.client = "erro" \/ loc.captcha.api = "erro")
             => loc.captcha.ddddocr # ""
        /\ loc.resultado_ocr = None => loc.captcha.ddddocr = "erro"

\* C14: a call with valid input whose attempts are at or above the recursive bound returns
\* the 500 ERRO_SERVIDOR_INTERNO response (code 3) at once: the orchestrator is not
\* entered, the captcha bound is not consulted, no network call is issued, and attempts,
\* captchas_resolvidos and bytes_enviados keep their values.
C14_LimiteRecursivoImediato ==
    [][(pc = "call" /\ EntradaValida /\ telemetria.tentativas >= cfg.recursivas) =>
          /\ retorno' = Some(JSONResponse(HTTP_500_INTERNAL_SERVER_ERROR, 3,
                                          "ERRO_SERVIDOR_INTERNO"))
          /\ pc' \in {"finally", "done"}
          /\ chamadas' = <<>>
          /\ execucoes' = execucoes
          /\ recebidos' = recebidos
          /\ telemetria'.tentativas = telemetria.tentativas
          /\ telemetria'.captchas_resolvidos = telemetria.captchas_resolvidos
          /\ telemetria'.bytes_enviados = telemetria.bytes_enviados]_vars

\* a request that started at or above the recursive bound has returned code 3 without
\* an orchestrator run
C14_Witness ==
    /\ Terminou
    /\ EntradaValida
    /\ telemetria0.tentativas >= cfg.recursivas
    /\ cfg.captcha > telemetria0.tentativas
    /\ Retornado.code = 3
    /\ execucoes = 0

\* C16: captchas_resolvidos grows by exactly one in each resolver run that obtained the
\* image (status 200), whatever the recognizers then do, and changes in no other step:
\* it is never reset and never decreases.
C16_CaptchasContaResolucoes ==
    [][IF pc = "captcha" /\ pc' # "captcha" /\ loc'.captcha.status = HTTP_200_OK
       THEN telemetria'.captchas_resolvidos = telemetria.captchas_resolvidos + 1
       ELSE telemetria'.captchas_resolvidos = telemetria.captchas_resolvidos]_vars

\* C15: bytes_enviados is its initial value plus the sum of the body sizes of every
\* response received so far in the request: those of the failed attempts, those with a
\* status other than 200 and the captcha image included.
C15_BytesSomaTodasAsRespostas ==
    telemetria.bytes_enviados = telemetria0.bytes_enviados + recebidos

\* C17 (as stated): attempts counts the recursive retries only: it grows by one with each
\* recursive call and nowhere else, and through the endpoint it starts at 0, so that the
\* first orchestrator run has attempts 0 and the returned telemetry carries the number
\* of retries.
C17_TentativasContaRepeticoes ==
    /\ telemetria.tentativas = telemetria0.tentativas + recursoes
    /\ entrada = "endpoint" => telemetria.tentativas = recursoes

\* C17 (amended): attempts is its initial value plus the number of recursive retries: it
\* grows by one with each recursive call and nowhere else.  Through the endpoint it
\* starts at 1, so that the first orchestrator run has attempts 1 and the returned
\* telemetry carries one more than the number of retries.
C17_TentativasInicialMaisRepeticoes ==
    /\ telemetria.tentativas = telemetria0.tentativas + recursoes
    /\ entrada = "endpoint" =>
         /\ telemetria0.tentativas = ENDPOINT_TENTATIVAS
         /\ telemetria.tentativas = ENDPOINT_TENTATIVAS + recursoes

\* a request through the endpoint has returned after at least one retry
C17_Witness ==
    /\ Terminou
    /\ entrada = "endpoint"
    /\ recursoes >= 1
    /\ telemetria.tentativas = recursoes + 1

\* the orchestrator runs the bounds allow to a request
MaximoDeExecucoes ==
    IF cfg.recursivas > telemetria0.tentativas
    THEN cfg.recursivas - telemetria0.tentativas
    ELSE 0

\* The event loop resumes the coroutine whenever the call it awaits has answered or
\* failed, and runs it up to the next await: a step that can be taken is taken.
SpecJusta == Spec /\ WF_vars(Next)

\* C20: every request returns, and the orchestrator runs at most (recursive bound minus
\* initial attempts) times: at most 30 times with the default bounds and attempts
\* starting at 0.
C20_FetchRetorna ==
    /\ <>Terminou
    /\ [](execucoes <= MaximoDeExecucoes)

\* a request with the default bounds, starting at attempts 0, has returned after 30
\* orchestrator runs
C20_Witness ==
    /\ Terminou
    /\ ConfigPadrao
    /\ telemetria0.tentativas = 0
    /\ execucoes = DEFAULT_TENTATIVAS_MAXIMAS_RECURSIVAS

\* the running call's attempt ended in success (its fragments are still in loc)
TentativaComSucesso ==
    /\ pc \in {"finally", "done"}
    /\ results.code = 200
    /\ loc.soup_1 # None

\* the movements of one fragment, in its own document order
MovimentacoesDe(frag) == extrair_movimentacoes(frag.tabelas).movimentacoes

\* the attempt's list is that of the first fragment followed by that of the second
DuasPaginasEmOrdem ==
    /\ loc.soup_2 # None
    /\ results.results = MovimentacoesDe(loc.soup_1[1]) \o MovimentacoesDe(loc.soup_2[1])

\* no second fragment was requested and the attempt's list is that of the first fragment
UmaPagina ==
    /\ loc.soup_2 = None
    /\ results.results = MovimentacoesDe(loc.soup_1[1])

\* C18 (as stated): on a successful attempt, when the first fragment has the
\* older-movements marker a second fragment is fetched and the movements are those of
\* the first fragment followed by those of the second, in document order; otherwise
\* they are those of the first fragment alone.
C18_MarcadorTrazSegundaPagina ==
    TentativaComSucesso =>
        IF Contains(loc.soup_1[1].text, MARCADOR_ANTIGAS)
        THEN DuasPaginasEmOrdem
        ELSE UmaPagina

\* C18 (amended): on a successful attempt, when the first fragment has the
\* older-movements marker and its scripts give a second HtmlContent token, a second
\* fragment is fetched and the movements are those of the first fragment followed by
\* those of the second, in document order; otherwise (no marker, or a marker without a
\* token) they are those of the first fragment alone.
C18_MarcadorETokenTrazemSegundaPagina ==
    TentativaComSucesso =>
        IF /\ Contains(loc.soup_1[1].text, MARCADOR_ANTIGAS)
           /\ ~SemMarcador(find_all_js(loc.soup_1[1].scripts), "HtmlContent")
        THEN DuasPaginasEmOrdem
        ELSE UmaPagina

\* an attempt succeeded with one movement from each of the two fragments
C18_Witness ==
    /\ TentativaComSucesso
    /\ loc.soup_2 # None
    /\ Len(results.results) = 2
    /\ results.results[1] = MovimentacoesDe(loc.soup_1[1])[1]
    /\ results.results[2] = MovimentacoesDe(loc.soup_2[1])[1]
    /\ results.results[1] # results.results[2]

\* the movement parser was run by the running call's attempt
Analisado ==
    /\ loc.soup_1 # None
    /\ pc \in {"except", "finally", "done"}
    /\ (/\ Contains(loc.soup_1[1].text, MARCADOR_ANTIGAS)
        /\ ~SemMarcador(find_all_js(loc.soup_1[1].scripts), "HtmlContent"))
       => loc.soup_2 # None

\* the rows handed to the parser that have at least 5 cells, in document order
LinhasComCincoCelulas ==
    SelectSeq(linhas_de(loc.soup_1[1].tabelas
                        \o (IF loc.soup_2 = None THEN <<>> ELSE loc.soup_2[1].tabelas)),
              LAMBDA l : Len(l) >= 5)

\* the actor the precedence gives for a cell: role is the text of its bolded
\* sub-element, name its first text node
AtorEsperado(cell) ==
    LET bs == SelectSeq(cell, LAMBDA n : n.tag = "b")
        ts == SelectSeq(cell, LAMBDA n : n.tag = "")
        role == IF bs = <<>> THEN "" ELSE Strip(bs[1].text)
        name == IF ts = <<>> THEN "" ELSE Strip(ts[1].text)
    IN  IF name # "" /\ role # "" THEN name \o " - " \o role
        ELSE IF name # "" THEN name
        ELSE IF role # "" THEN role
        ELSE get_text_strip(cell)

\* C19: the parser gives exactly one record for every non-header row with at least 5
\* cells (no such row is dropped, whatever its content), and the actor of the record
\* is "name - role" when the cell has a bolded role and a leading name text, the one
\* present when only one is, and the cell's trimmed text otherwise.
C19_UmRegistroPorLinha ==
    Analisado =>
        /\ pc \in {"finally", "done"}
        /\ results.code = 200
        /\ Len(results.results) = Len(LinhasComCincoCelulas)
        /\ \A i \in 1..Len(LinhasComCincoCelulas) :
               results.results[i].movimentado_por = AtorEsperado(LinhasComCincoCelulas[i][5])

\* the network calls of one attempt, in their order
OrdemDasChamadas ==
    <<"landing", "cabecalho", "consulta", "select", "autocomplete", "captcha", "form",
      "ultimo", "resp_final">>

\* C12: in every attempt the network calls are issued in the order landing, header,
\* consultation page, comarca select, autocomplete, captcha image, form submission,
\* results, second results page, none repeated and none skipped; a call is issued only
\* after every earlier call of the attempt answered 200 and gave the element or token
\* the later steps need (stated for each call at the moment it is awaited).
C12_ChamadasEmOrdem ==
    /\ Len(chamadas) <= Len(OrdemDasChamadas)
    /\ chamadas = SubSeq(OrdemDasChamadas, 1, Len(chamadas))
    /\ Len(respostas) <= Len(chamadas)
    /\ Len(chamadas) <= Len(respostas) + 1
    /\ \A i \in 1..Len(respostas) : i < Len(chamadas) => respostas[i] = HTTP_200_OK
    /\ pc \in {"landing", "cabecalho", "consulta", "select", "autocomplete", "captcha",
               "form", "ultimo", "resp_final"}
         => (pc = chamadas[Len(chamadas)] /\ Len(respostas) = Len(chamadas) - 1)
    /\ pc = "select" =>
         /\ loc.soup_consulta # None
         /\ loc.soup_consulta[1].img # None
         /\ ~SemMarcador(find_all_js(loc.soup_consulta[1].scripts), "Select")
    /\ pc = "autocomplete" =>
         ~SemMarcador(find_all_js(loc.soup_consulta[1].scripts), "Autocomplete")
    /\ pc = "form" =>
         /\ loc.captcha.status = HTTP_200_OK
         /\ loc.resultado_ocr # None
         /\ form_token_url(loc.soup_consulta[1].scripts) # None
    /\ pc = "ultimo" =>
         /\ loc.soup_final # None
         /\ ~SemMarcador(find_all_js(loc.soup_final[1].scripts), "HtmlContent")
    /\ pc = "resp_final" =>
         /\ loc.soup_1 # None
         /\ Contains(loc.soup_1[1].text, MARCADOR_ANTIGAS)
         /\ ~SemMarcador(find_all_js(loc.soup_1[1].scripts), "HtmlContent")

\* an attempt has issued its nine calls and ended in success
C12_Witness ==
    /\ chamadas = OrdemDasChamadas
    /\ Len(respostas) = 9
    /\ pc = "finally"
    /\ results.code = 200

\* C13: whenever the outermost call has returned, tempo_total is the time elapsed since
\* that call started: it was computed anew right before the return, never left at the
\* value the caller put in it.
C13_TempoTotalRecalculado ==
    Terminou => telemetria.tempo_total = relogio - inicio_tempo

\* C11 (as stated): with two or more requests in flight as cooperative tasks, the
\* scratch file is a data race: a request's write of the file and the recognizer's
\* read of it for that request are apart, the task being suspended in between, so that
\* another request runs there and the read gets that request's image.  A cooperative
\* task gives way only where it is suspended, and one path leads from the write to the
\* read, so the overwritten read is reachable exactly when every step in which a task
\* writes the file ends with the recognizer's read for it still to come.
C11_EscritaSeparadaDaLeitura ==
    [][\A r \in Tarefas :
          (tarefas[r].pc = "captcha" /\ tarefas'[r].imagem # None /\ arquivo' = tarefas'[r].imagem)
              => tarefas'[r].lido = None]_vars

\* C11 (amended): with two or more requests in flight as cooperative tasks, each write
\* of the scratch file replaces the image another request left there, but the
\* recognizer's read follows the write of the same request with no await in between:
\* whatever the interleaving, the image read for a request is that request's own.
C11_LeituraDaPropriaImagem ==
    \A r \in Tarefas :
        /\ tarefas[r].lido # None => tarefas[r].lido = tarefas[r].imagem
        /\ tarefas[r].imagem # None => tarefas[r].imagem[1].dono = r

\* two requests are in flight past their resolution, each having read its own image,
\* and the file holds the image of one of them only
C11_Witness ==
    /\ tarefas[1].pc = "depois"
    /\ tarefas[2].pc = "depois"
    /\ tarefas[1].lido # None
    /\ tarefas[1].lido = tarefas[1].imagem
    /\ tarefas[2].lido = tarefas[2].imagem
    /\ arquivo = tarefas[2].imagem
    /\ arquivo # tarefas[1].imagem

\* the captcha bound is not below the recursive bound
CaptchaNaoAbaixoDoRecursivo == cfg.captcha >= cfg.recursivas

\* C21: whenever the captcha bound is greater than or equal to the recursive bound, the
\* code-4 failure dict is never built: every failure of an attempt takes the
\* increment-and-recurse branch of the except clause, and a chain of failed attempts
\* ends only by the recursive-bound check at the start of a nested call (code 3).
C21_Codigo4Inalcancavel ==
    [][CaptchaNaoAbaixoDoRecursivo =>
          /\ results' # DictErro
          /\ pc = "except" =>
               /\ pc' = "call"
               /\ Len(pilha') = Len(pilha) + 1
               /\ telemetria'.tentativas = telemetria.tentativas + 1
          /\ (EntradaValida /\ retorno = None /\ retorno' # None /\ sucesso' = None) =>
               /\ retorno'[1].code = 3
               /\ telemetria.tentativas >= cfg.recursivas]_vars

\* with the captcha bound not below the recursive bound, a request has returned after
\* retries that all failed, stopped by the recursive-bound check
C21_Witness ==
    /\ Terminou
    /\ CaptchaNaoAbaixoDoRecursivo
    /\ recursoes >= 1
    /\ sucesso = None
    /\ telemetria.tentativas = cfg.recursivas
    /\ results # DictErro
====
